---- MODULE Spec2Model ----
(***************************************************************************)
(* pyincpp::Int -- arbitrary-precision signed integer (sources/Int.hpp).   *)
(* An Int is a record [sign_, digits_]: digits_ is the base-10 magnitude,  *)
(* least-significant digit first (index 1 here is index 0 of the vector),  *)
(* sign_ is 1, -1 or 0.                                                    *)
(***************************************************************************)
EXTENDS Integers, Sequences, FiniteSets, TLC

(***************************************************************************)
(* Representation                                                          *)
(***************************************************************************)

\* Int() = default: empty digits, sign_ = 0.
Zero == [sign_ |-> 0, digits_ |-> << >>]

\* n zero cells: std::vector<signed char>(n, 0).
RECURSIVE Zeros(_)
Zeros(n) == IF n <= 0 THEN << >> ELSE <<0>> \o Zeros(n - 1)

\* The digit sequence without its most-significant zeros.
RECURSIVE StripZeros(_)
StripZeros(d) ==
    IF d # << >> /\ d[Len(d)] = 0 THEN StripZeros(SubSeq(d, 1, Len(d) - 1)) ELSE d

\* Variant: the zeros are not erased.
remove_leading_zeros_kept(x) == x

\* Int::remove_leading_zeros: erases the zeros, the sign is left as it is.
remove_leading_zeros(x) == [x EXCEPT !.digits_ = StripZeros(x.digits_)]

\* Int::add_leading_zeros: resize(size + n, 0).
add_leading_zeros(x, n) == [x EXCEPT !.digits_ = x.digits_ \o Zeros(n)]

\* Variant: the sign is left as it is when no digit remains.
ZeroSignIfEmpty_kept(x) == x

\* "if result is zero, set sign to 0": sign_ = digits_.empty() ? 0 : sign_.
ZeroSignIfEmpty(x) == [x EXCEPT !.sign_ = IF x.digits_ = << >> THEN 0 ELSE x.sign_]

(***************************************************************************)
(* Construction from a native int                                          *)
(***************************************************************************)

\* The while loop of Int(int): push_back(integer % 10); integer /= 10.
RECURSIVE IntDigits(_)
IntDigits(n) == IF n > 0 THEN <<n % 10>> \o IntDigits(n \div 10) ELSE << >>

\* std::abs on a value whose absolute value is representable.
NativeAbs(n) == IF n < 0 THEN -n ELSE n

\* Int::Int(int integer).
IntOf(n) ==
    IF n = 0 THEN Zero
    ELSE [sign_ |-> IF n > 0 THEN 1 ELSE -1, digits_ |-> IntDigits(NativeAbs(n))]

(***************************************************************************)
(* Comparison                                                              *)
(***************************************************************************)

\* Int::operator==.
Equal(x, y) == x.sign_ = y.sign_ /\ x.digits_ = y.digits_

\* Variant: the first differing digit decides as it does for positive values.
RECURSIVE CmpDigits_unsigned(_, _, _, _)
CmpDigits_unsigned(x, y, i, sgn) ==
    IF i < 1 THEN 0
    ELSE IF x[i] # y[i] THEN (IF x[i] > y[i] THEN 1 ELSE -1)
         ELSE CmpDigits_unsigned(x, y, i - 1, sgn)

\* The digit loop of operator<=>: from the most-significant index down.
RECURSIVE CmpDigits(_, _, _, _)
CmpDigits(x, y, i, sgn) ==
    IF i < 1 THEN 0
    ELSE IF x[i] # y[i]
         THEN (IF sgn = 1 THEN (IF x[i] > y[i] THEN 1 ELSE -1)
                          ELSE (IF x[i] > y[i] THEN -1 ELSE 1))
         ELSE CmpDigits(x, y, i - 1, sgn)

\* Int::operator<=>: -1 (less), 0 (equal), 1 (greater).
Compare(x, y) ==
    IF x.sign_ # y.sign_
    THEN (IF x.sign_ = 1 THEN 1
          ELSE IF x.sign_ = -1 THEN -1
          ELSE (IF y.sign_ = 1 THEN -1 ELSE 1))
    ELSE IF Len(x.digits_) # Len(y.digits_)
         THEN (IF x.sign_ = 1
               THEN (IF Len(x.digits_) > Len(y.digits_) THEN 1 ELSE -1)
               ELSE (IF Len(x.digits_) > Len(y.digits_) THEN -1 ELSE 1))
         ELSE CmpDigits(x.digits_, y.digits_, Len(x.digits_), x.sign_)

Less(x, y) == Compare(x, y) < 0
Greater(x, y) == Compare(x, y) > 0
GreaterEq(x, y) == Compare(x, y) >= 0

(***************************************************************************)
(* Examination                                                             *)
(***************************************************************************)

digits(x) == Len(x.digits_)
is_zero(x) == x.sign_ = 0
is_positive(x) == x.sign_ = 1
is_negative(x) == x.sign_ = -1
is_even(x) == IF is_zero(x) THEN TRUE ELSE x.digits_[1] % 2 = 0
is_odd(x) == IF is_zero(x) THEN FALSE ELSE x.digits_[1] % 2 = 1

(***************************************************************************)
(* Unary operators                                                         *)
(***************************************************************************)

\* Int::operator-() : copy with the sign negated.
Neg(x) == [x EXCEPT !.sign_ = -x.sign_]

\* Int::abs.
abs(x) == IF x.sign_ = -1 THEN Neg(x) ELSE x

(***************************************************************************)
(* Addition and subtraction                                                *)
(***************************************************************************)

\* Vertical addition: for i in 0..size-2: c[i] += a[i] + b[i];
\* c[i+1] = c[i] / 10; c[i] %= 10.  Indices are shifted by one.
RECURSIVE AddLoop(_, _, _, _, _)
AddLoop(a, b, c, i, size) ==
    IF i > size - 1 THEN c
    ELSE LET s == c[i] + a[i] + b[i]
         IN  AddLoop(a, b, [c EXCEPT ![i] = s % 10, ![i + 1] = s \div 10], i + 1, size)

\* Vertical subtraction, a >= b: a borrow decrements a[i+1] and adds 10 to a[i].
\* st = [a |-> ..., c |-> ...].
RECURSIVE SubLoop(_, _, _, _)
SubLoop(st, b, i, size) ==
    IF i > size THEN st
    ELSE LET a1 == IF st.a[i] < b[i]
                   THEN [st.a EXCEPT ![i + 1] = st.a[i + 1] - 1, ![i] = st.a[i] + 10]
                   ELSE st.a
         IN  SubLoop([a |-> a1, c |-> [st.c EXCEPT ![i] = a1[i] - b[i]]], b, i + 1, size)

Max(m, n) == IF m >= n THEN m ELSE n

\* The same-sign branch of operator+.
AddSameSign(x, y) ==
    LET size == Max(Len(x.digits_), Len(y.digits_)) + 1
        num1 == add_leading_zeros(x, size - 1 - Len(x.digits_))
        num2 == add_leading_zeros(y, size - 1 - Len(y.digits_))
        result == [sign_ |-> x.sign_, digits_ |-> Zeros(size)]
    IN  remove_leading_zeros(
            [result EXCEPT !.digits_ = AddLoop(num1.digits_, num2.digits_, @, 1, size)])

\* Variant: the sign is not flipped when the operands are swapped.
SubSameSign_noflip(x, y) ==
    LET size == Max(Len(x.digits_), Len(y.digits_))
        p1 == add_leading_zeros(x, size - Len(x.digits_))
        p2 == add_leading_zeros(y, size - Len(y.digits_))
        swap == IF x.sign_ = 1 THEN Less(p1, p2) ELSE Greater(p1, p2)
        num1 == IF swap THEN p2 ELSE p1
        num2 == IF swap THEN p1 ELSE p2
        fin == SubLoop([a |-> num1.digits_, c |-> Zeros(size)], num2.digits_, 1, size)
    IN  ZeroSignIfEmpty(remove_leading_zeros([sign_ |-> x.sign_, digits_ |-> fin.c]))

\* The same-sign branch of operator-.
SubSameSign(x, y) ==
    LET size == Max(Len(x.digits_), Len(y.digits_))
        p1 == add_leading_zeros(x, size - Len(x.digits_))
        p2 == add_leading_zeros(y, size - Len(y.digits_))
        swap == IF x.sign_ = 1 THEN Less(p1, p2) ELSE Greater(p1, p2)
        num1 == IF swap THEN p2 ELSE p1
        num2 == IF swap THEN p1 ELSE p2
        rsign == IF swap THEN -x.sign_ ELSE x.sign_
        fin == SubLoop([a |-> num1.digits_, c |-> Zeros(size)], num2.digits_, 1, size)
    IN  ZeroSignIfEmpty(remove_leading_zeros([sign_ |-> rsign, digits_ |-> fin.c]))

RECURSIVE Add(_, _), Sub(_, _)

\* Int::operator+(const Int& rhs).
Add(x, y) ==
    IF x.sign_ = 0 \/ y.sign_ = 0 THEN (IF x.sign_ = 0 THEN y ELSE x)
    ELSE IF x.sign_ = 1 /\ y.sign_ = -1 THEN Sub(x, Neg(y))
    ELSE IF x.sign_ = -1 /\ y.sign_ = 1 THEN Sub(y, Neg(x))
    ELSE AddSameSign(x, y)

\* Variant: 0 - y yields y.
Sub_from_zero(x, y) ==
    IF x.sign_ = 0 \/ y.sign_ = 0 THEN (IF x.sign_ = 0 THEN y ELSE x)
    ELSE IF x.sign_ # y.sign_ THEN Add(x, Neg(y))
    ELSE SubSameSign(x, y)

\* Int::operator-(const Int& rhs).
Sub(x, y) ==
    IF x.sign_ = 0 \/ y.sign_ = 0 THEN (IF x.sign_ = 0 THEN Neg(y) ELSE x)
    ELSE IF x.sign_ # y.sign_ THEN Add(x, Neg(y))
    ELSE SubSameSign(x, y)

(***************************************************************************)
(* Multiplication                                                          *)
(***************************************************************************)

\* Variant: the carry into the next cell is lost.
RECURSIVE MulInner_carry_lost(_, _, _, _, _)
MulInner_carry_lost(a, b, c, i, j) ==
    IF j > Len(b) THEN c
    ELSE LET s == c[i + j - 1] + a[i] * b[j]
         IN  MulInner_carry_lost(a, b, [c EXCEPT ![i + j - 1] = s % 10], i, j + 1)

\* The inner loop over j of operator*.
RECURSIVE MulInner(_, _, _, _, _)
MulInner(a, b, c, i, j) ==
    IF j > Len(b) THEN c
    ELSE LET s == c[i + j - 1] + a[i] * b[j]
         IN  MulInner(a, b,
                      [c EXCEPT ![i + j - 1] = s % 10, ![i + j] = c[i + j] + s \div 10],
                      i, j + 1)

\* The outer loop over i of operator*.
RECURSIVE MulLoop(_, _, _, _)
MulLoop(a, b, c, i) ==
    IF i > Len(a) THEN c ELSE MulLoop(a, b, MulInner(a, b, c, i, 1), i + 1)

\* Variant: the result takes the sign of the left operand.
Mul_left_sign(x, y) ==
    IF x.sign_ = 0 \/ y.sign_ = 0 THEN IntOf(0)
    ELSE LET size == Len(x.digits_) + Len(y.digits_)
             result == [sign_ |-> x.sign_, digits_ |-> Zeros(size)]
         IN  remove_leading_zeros(
                 [result EXCEPT !.digits_ = MulLoop(x.digits_, y.digits_, @, 1)])

\* Int::operator*(const Int& rhs).
Mul(x, y) ==
    IF x.sign_ = 0 \/ y.sign_ = 0 THEN IntOf(0)
    ELSE LET size == Len(x.digits_) + Len(y.digits_)
             result == [sign_ |-> IF x.sign_ = y.sign_ THEN 1 ELSE -1,
                        digits_ |-> Zeros(size)]
         IN  remove_leading_zeros(
                 [result EXCEPT !.digits_ = MulLoop(x.digits_, y.digits_, @, 1)])

(***************************************************************************)
(* Division and remainder                                                  *)
(***************************************************************************)

\* Variant: the last element is erased.
EraseFirst_last(d) == SubSeq(d, 1, Len(d) - 1)

\* tmp.digits_.erase(tmp.digits_.begin()).
EraseFirst(d) == SubSeq(d, 2, Len(d))

\* Variant: the loop runs while num1 > tmp.
RECURSIVE DivWhile_gt(_, _, _)
DivWhile_gt(st, tmp, i) ==
    IF Greater(st.num1, tmp)
    THEN DivWhile_gt([num1 |-> Sub(st.num1, tmp), q |-> [st.q EXCEPT ![i] = @ + 1]], tmp, i)
    ELSE st

\* while (num1 >= tmp) { result.digits_[i]++; num1 -= tmp; }
\* st = [num1 |-> ..., q |-> quotient digits].
RECURSIVE DivWhile(_, _, _)
DivWhile(st, tmp, i) ==
    IF GreaterEq(st.num1, tmp)
    THEN DivWhile([num1 |-> Sub(st.num1, tmp), q |-> [st.q EXCEPT ![i] = @ + 1]], tmp, i)
    ELSE st

\* for (i = size - 1; i >= 0; i--) { erase; while ... }
RECURSIVE DivLoop(_, _, _)
DivLoop(st, tmp, i) ==
    IF i < 1 THEN st
    ELSE LET t == [tmp EXCEPT !.digits_ = EraseFirst(@)]
         IN  DivLoop(DivWhile(st, t, i), t, i - 1)

\* The value of a / b when b is not zero (operator/ after the zero check).
Quotient(x, y) ==
    IF digits(x) < digits(y) THEN IntOf(0)
    ELSE LET size == Len(x.digits_) - Len(y.digits_) + 1
             tmp == [sign_ |-> 1, digits_ |-> Zeros(size) \o y.digits_]
             rsign == IF x.sign_ = y.sign_ THEN 1 ELSE -1
             fin == DivLoop([num1 |-> abs(x), q |-> Zeros(size)], tmp, size)
         IN  ZeroSignIfEmpty(remove_leading_zeros([sign_ |-> rsign, digits_ |-> fin.q]))

\* while (result >= tmp) { result -= tmp; } of operator%.
RECURSIVE ModWhile(_, _)
ModWhile(result, tmp) ==
    IF GreaterEq(result, tmp) THEN ModWhile(Sub(result, tmp), tmp) ELSE result

\* for (i = size - 1; i >= 0; i--) { erase; while ... } of operator%.
RECURSIVE ModLoop(_, _, _)
ModLoop(result, tmp, i) ==
    IF i < 1 THEN result
    ELSE LET t == [tmp EXCEPT !.digits_ = EraseFirst(@)]
         IN  ModLoop(ModWhile(result, t), t, i - 1)

\* Variant: a remainder that is not zero takes the sign of the divisor.
Remainder_rhs_sign(x, y) ==
    IF digits(x) < digits(y) THEN x
    ELSE LET size == Len(x.digits_) - Len(y.digits_) + 1
             tmp == [sign_ |-> 1, digits_ |-> Zeros(size) \o y.digits_]
             r == remove_leading_zeros(ModLoop(abs(x), tmp, size))
         IN  [r EXCEPT !.sign_ = IF r.digits_ = << >> THEN 0 ELSE y.sign_]

\* The value of a % b when b is not zero (operator% after the zero check).
Remainder(x, y) ==
    IF digits(x) < digits(y) THEN x
    ELSE LET size == Len(x.digits_) - Len(y.digits_) + 1
             tmp == [sign_ |-> 1, digits_ |-> Zeros(size) \o y.digits_]
             r == remove_leading_zeros(ModLoop(abs(x), tmp, size))
         IN  [r EXCEPT !.sign_ = IF r.digits_ = << >> THEN 0 ELSE x.sign_]

(***************************************************************************)
(* Fast increment and decrement of the absolute value                      *)
(***************************************************************************)

\* while (digits_[i] == v) ++i;  (index of the first cell that is not v)
RECURSIVE SkipRun(_, _, _)
SkipRun(d, v, i) == IF d[i] = v THEN SkipRun(d, v, i + 1) ELSE i

\* while (i != 0) digits_[--i] = v;  (every cell below i becomes v)
RECURSIVE FillBelow(_, _, _)
FillBelow(d, i, v) == IF i > 1 THEN FillBelow([d EXCEPT ![i - 1] = v], i - 1, v) ELSE d

\* Int::abs_inc (requires a value that is not zero).
abs_inc(x) ==
    LET d == x.digits_ \o <<0>>
        i == SkipRun(d, 9, 1)
    IN  remove_leading_zeros([x EXCEPT !.digits_ = FillBelow([d EXCEPT ![i] = @ + 1], i, 0)])

\* Variant: the sign is not reset when no digit remains.
abs_dec_signed(x) ==
    LET i == SkipRun(x.digits_, 0, 1)
    IN  remove_leading_zeros(
            [x EXCEPT !.digits_ = FillBelow([x.digits_ EXCEPT ![i] = @ - 1], i, 9)])

\* Int::abs_dec (requires a value that is not zero).
abs_dec(x) ==
    LET i == SkipRun(x.digits_, 0, 1)
    IN  ZeroSignIfEmpty(remove_leading_zeros(
            [x EXCEPT !.digits_ = FillBelow([x.digits_ EXCEPT ![i] = @ - 1], i, 9)]))

\* Int::operator++ (prefix).
Increment(x) ==
    IF x.sign_ = 0 THEN [sign_ |-> 1, digits_ |-> <<1>>]
    ELSE IF x.sign_ = 1 THEN abs_inc(x) ELSE abs_dec(x)

\* Int::operator-- (prefix).
Decrement(x) ==
    IF x.sign_ = 0 THEN [sign_ |-> -1, digits_ |-> <<1>>]
    ELSE IF x.sign_ = 1 THEN abs_dec(x) ELSE abs_inc(x)

(***************************************************************************)
(* Outcomes: a returned value, or a thrown std::runtime_error              *)
(***************************************************************************)

NoError == "none"
WrongLiteral == "Error: Wrong integer literal."
DivideByZero == "Error: Divide by zero."
NoFactorial == "Error: Negative integer have no factorial."
NegativeSqrt == "Error: Cannot compute square root of a negative integer."
MathDomain == "Error: Math domain error."
\* The message of Int::random, without the quotes around the word digits.
InvalidDigits == "Error: digits must be a non-negative integer or default = -1."

\* return v;
Ok(v) == [err |-> NoError, val |-> <<v>>]
\* throw std::runtime_error(e): no value is produced.
Throw(e) == [err |-> e, val |-> << >>]
\* No operation has been called.
NoResult == [err |-> NoError, val |-> << >>]

\* Variant: a zero divisor yields zero instead of the throw.
Div_unchecked(x, y) == IF y.sign_ = 0 THEN Ok(IntOf(0)) ELSE Ok(Quotient(x, y))

\* Int::operator/ with its zero check.
Div(x, y) == IF y.sign_ = 0 THEN Throw(DivideByZero) ELSE Ok(Quotient(x, y))

\* Int::operator% with its zero check.
Mod(x, y) == IF y.sign_ = 0 THEN Throw(DivideByZero) ELSE Ok(Remainder(x, y))

(***************************************************************************)
(* Number theory                                                           *)
(***************************************************************************)

\* for (Int i = *this; i.is_positive(); i.abs_dec()) result *= i;
RECURSIVE FactorialLoop(_, _)
FactorialLoop(result, i) ==
    IF is_positive(i) THEN FactorialLoop(Mul(result, i), abs_dec(i)) ELSE result

\* Variant: no throw for a negative value.
factorial_no_throw(x) == Ok(FactorialLoop(IntOf(1), x))

\* Int::factorial.
factorial(x) ==
    IF x.sign_ = -1 THEN Throw(NoFactorial) ELSE Ok(FactorialLoop(IntOf(1), x))

\* The fast power loop of Int::pow: st = [num, n, result].
RECURSIVE PowLoop(_, _)
PowLoop(st, mod) ==
    IF is_zero(st.n) THEN st.result
    ELSE LET r == IF is_odd(st.n)
                  THEN (IF is_zero(mod) THEN Mul(st.result, st.num)
                                        ELSE Remainder(Mul(st.result, st.num), mod))
                  ELSE st.result
             sq == IF is_zero(mod) THEN Mul(st.num, st.num)
                                   ELSE Remainder(Mul(st.num, st.num), mod)
         IN  PowLoop([num |-> sq, n |-> Quotient(st.n, IntOf(2)), result |-> r], mod)

\* Variant: a negative exponent yields zero for the base zero too.
pow_no_throw(base, exp, mod) ==
    IF digits(base) = 1 /\ base.digits_[1] = 1
    THEN Ok(IF base.sign_ = -1 /\ is_odd(exp) THEN IntOf(-1) ELSE IntOf(1))
    ELSE IF is_negative(exp)
         THEN Ok(IntOf(0))
         ELSE Ok(PowLoop([num |-> base, n |-> exp, result |-> IntOf(1)], mod))

\* Int::pow(base, exp, mod).
pow(base, exp, mod) ==
    IF digits(base) = 1 /\ base.digits_[1] = 1
    THEN Ok(IF base.sign_ = -1 /\ is_odd(exp) THEN IntOf(-1) ELSE IntOf(1))
    ELSE IF is_negative(exp)
         THEN (IF is_zero(base) THEN Throw(MathDomain) ELSE Ok(IntOf(0)))
         ELSE Ok(PowLoop([num |-> base, n |-> exp, result |-> IntOf(1)], mod))

\* while (!value.is_zero()) { ++result; value /= base; }
RECURSIVE LogLoop(_, _, _)
LogLoop(result, value, base) ==
    IF is_zero(value) THEN result
    ELSE LogLoop(Increment(result), Quotient(value, base), base)

\* Variant: the loop starts from integer, not from integer / base.
log_undivided(integer, base) ==
    IF integer.sign_ <= 0 \/ Less(base, IntOf(2)) THEN Throw(MathDomain)
    ELSE IF Equal(base, IntOf(10)) THEN Ok(IntOf(digits(integer) - 1))
    ELSE Ok(LogLoop(Zero, integer, base))

\* Int::log(integer, base).
log(integer, base) ==
    IF integer.sign_ <= 0 \/ Less(base, IntOf(2)) THEN Throw(MathDomain)
    ELSE IF Equal(base, IntOf(10)) THEN Ok(IntOf(digits(integer) - 1))
    ELSE Ok(LogLoop(Zero, Quotient(integer, base), base))

\* Variant: the loop body runs at most once.
gcd_once(int1, int2) == IF is_zero(int2) THEN int1 ELSE int2

\* Int::gcd: while (!b.is_zero()) { t = b; b = a % b; a = t; } return a.
RECURSIVE gcd(_, _)
gcd(int1, int2) == IF is_zero(int2) THEN int1 ELSE gcd(int2, Remainder(int1, int2))

\* Int::lcm.
lcm(int1, int2) ==
    IF is_zero(int1) \/ is_zero(int2) THEN IntOf(0)
    ELSE Quotient(Mul(int1, int2), gcd(int1, int2))

(***************************************************************************)
(* Text: a C string is the sequence of its character codes                 *)
(***************************************************************************)

CharPlus == 43
CharMinus == 45
CharZero == 48
CharNine == 57
\* The terminating '\0', read as chars[0] of an empty string.
CharNul == 0

\* chars[k] of a null-terminated string, k counted from 0.
CharAt(chars, k) == IF k < Len(chars) THEN chars[k + 1] ELSE CharNul

IsSignChar(ch) == ch = CharPlus \/ ch = CharMinus

\* Variant: a lone sign is not rejected.
is_integer_lone_sign(chars, len) ==
    IF len = 0 THEN FALSE
    ELSE \A k \in (IF IsSignChar(CharAt(chars, 0)) THEN 1 ELSE 0)..(len - 1) :
            ~(CharAt(chars, k) < CharZero \/ CharAt(chars, k) > CharNine)

\* Int::is_integer(chars, len).
is_integer(chars, len) ==
    IF len = 0 \/ (len = 1 /\ IsSignChar(CharAt(chars, 0))) THEN FALSE
    ELSE \A k \in (IF IsSignChar(CharAt(chars, 0)) THEN 1 ELSE 0)..(len - 1) :
            ~(CharAt(chars, k) < CharZero \/ CharAt(chars, k) > CharNine)

\* for (i = 0; i != digit_len; i++) digits_[i] = chars[len - 1 - i] - '0';
RECURSIVE ReadDigits(_, _, _, _)
ReadDigits(chars, len, i, digit_len) ==
    IF i = digit_len THEN << >>
    ELSE <<CharAt(chars, len - 1 - i) - CharZero>> \o ReadDigits(chars, len, i + 1, digit_len)

\* Int::Int(const char* chars).
IntFromChars(chars) ==
    LET len == Len(chars)
        s == IF IsSignChar(CharAt(chars, 0)) THEN 1 ELSE 0
        digit_len == len - s
        sgn == IF CharAt(chars, 0) = CharMinus THEN -1 ELSE 1
    IN  IF ~is_integer(chars, len) THEN Throw(WrongLiteral)
        ELSE Ok(ZeroSignIfEmpty(remove_leading_zeros(
                 [sign_ |-> sgn,
                  digits_ |-> ReadDigits(chars, len, 0, digit_len)])))

\* Variant: the digits are written in storage order.
RECURSIVE WriteDigits_forward(_)
WriteDigits_forward(d) ==
    IF d = << >> THEN << >>
    ELSE <<d[1] + CharZero>> \o WriteDigits_forward(Tail(d))

\* The digits written most-significant first: for_each(rbegin, rend, os << char(d + '0')).
RECURSIVE WriteDigits(_)
WriteDigits(d) ==
    IF d = << >> THEN << >>
    ELSE <<d[Len(d)] + CharZero>> \o WriteDigits(SubSeq(d, 1, Len(d) - 1))

\* operator<<(std::ostream&, const Int&): the characters written.
Write(integer) ==
    IF integer.sign_ = 0 THEN <<CharZero>>
    ELSE (IF integer.sign_ = -1 THEN <<CharMinus>> ELSE << >>) \o WriteDigits(integer.digits_)

(***************************************************************************)
(* Bounds of the model                                                     *)
(***************************************************************************)

\* The objects a and b hold values of magnitude at most MaxAbs.
MaxAbs == 20
\* Literals handed to the constructor have at most MaxLen characters.
MaxLen == 3
\* Moduli handed to pow are -MaxMod..MaxMod.
MaxMod == 3
\* Exponents handed to pow have magnitude at most MaxExp.
MaxExp == 6

InBound(x) == Compare(abs(x), IntOf(MaxAbs)) <= 0

\* Characters a literal is made of: the signs, two digits and a blank.
Alphabet == {CharPlus, CharMinus, CharZero, CharZero + 1, 32}

RECURSIVE StringsOfLen(_)
StringsOfLen(n) ==
    IF n = 0 THEN {<< >>}
    ELSE {<<ch>> \o t : ch \in Alphabet, t \in StringsOfLen(n - 1)}

Literals == UNION {StringsOfLen(n) : n \in 0..MaxLen}

(***************************************************************************)
(* State                                                                   *)
(***************************************************************************)

VARIABLES
    a,          \* an Int object, the receiver of member operations
    b,          \* a second Int object, the right-hand operand
    c,          \* a third Int object
    op,         \* the operation called last, "none" before any call
    res,        \* what that call returned or threw
    out,        \* the characters written to the output stream
    chars,      \* the C string handed to the constructor
    pc,         \* "idle", or the loop a running call is in
    cur_sqrt,   \* sqrt: the current iterate
    pre_sqrt,   \* sqrt: the previous iterate
    prime,      \* next_prime: the candidate
    i,          \* next_prime: the trial divisor (a native int)
    num1,       \* operator/ and operator%: what is left of |a| (num1, result)
    tmp,        \* operator/ and operator%: the shifted divisor
    quot,       \* operator/: the digits of the quotient (result.digits_)
    pos,        \* operator/ and operator%: the for loop's index i
    passes,     \* passes of the while loop made at this index
    count,      \* the number of ++a minus the number of --a applied to a
    requested,  \* random: the argument digits of the last call (a native int)
    native,     \* Int(int): the argument of the last call (a native int)
    vert        \* operator+, - and *: the vertical calculation in progress

objs == <<a, b, c>>
sqrt_locals == <<cur_sqrt, pre_sqrt>>
np_locals == <<prime, i>>
div_locals == <<num1, tmp, quot, pos, passes>>
locals == <<pc, cur_sqrt, pre_sqrt, prime, i, num1, tmp, quot, pos, passes, count,
            requested, native, vert>>
vars == <<a, b, c, op, res, out, chars, pc, cur_sqrt, pre_sqrt, prime, i,
          num1, tmp, quot, pos, passes, count, requested, native, vert>>

\* No call is running and the last result has been consumed.
Ready == pc = "idle" /\ op = "none"

\* A call that returns at once: its result is left in res.
Return(name, outcome) ==
    /\ op' = name
    /\ res' = outcome
    /\ UNCHANGED <<out, chars, locals>>

\* No vertical calculation is in progress.
NoVertical ==
    [a |-> << >>, b |-> << >>, c |-> << >>, i |-> 0, j |-> 0, stmt |-> 0, size |-> 0,
     sign_ |-> 0]

InitLocals ==
    /\ pc = "idle"
    /\ cur_sqrt = Zero /\ pre_sqrt = Zero
    /\ prime = Zero /\ i = 0
    /\ num1 = Zero /\ tmp = Zero /\ quot = << >> /\ pos = 0 /\ passes = 0
    /\ count = 0
    /\ requested = 0
    /\ native = 0
    /\ vert = NoVertical

\* The values of the valid literals that fit an object.
LiteralValues ==
    {IntFromChars(s).val[1] : s \in {t \in Literals : IntFromChars(t).err = NoError}}
SmallLiteralValues == {v \in LiteralValues : InBound(v)}

\* a and b are constructed from valid literals.
Init ==
    /\ a \in SmallLiteralValues
    /\ b \in SmallLiteralValues
    /\ c = Zero
    /\ op = "none" /\ res = NoResult /\ out = << >> /\ chars = << >>
    /\ InitLocals

(***************************************************************************)
(* Construction, copy, and what is done with a result                      *)
(***************************************************************************)

\* Int(chars) for any string: a new value, or the literal error.
Construct ==
    /\ Ready
    /\ \E s \in Literals : Return("Int", IntFromChars(s))
    /\ UNCHANGED objs

\* b = a (copy assignment).
CopyAssign ==
    /\ Ready
    /\ b' = a
    /\ UNCHANGED <<a, c, op, res, out, chars, locals>>

\* a = the value returned by the last call.
StoreA ==
    /\ pc = "idle" /\ op # "none"
    /\ res.err = NoError /\ res.val # << >> /\ InBound(res.val[1])
    /\ a' = res.val[1]
    /\ op' = "none" /\ res' = NoResult
    /\ UNCHANGED <<b, c, out, chars, locals>>

\* b = the value returned by the last call.
StoreB ==
    /\ pc = "idle" /\ op # "none"
    /\ res.err = NoError /\ res.val # << >> /\ InBound(res.val[1])
    /\ b' = res.val[1]
    /\ op' = "none" /\ res' = NoResult
    /\ UNCHANGED <<a, c, out, chars, locals>>

\* The returned temporary is destroyed, or the exception is caught.
Discard ==
    /\ pc = "idle" /\ op # "none"
    /\ op' = "none" /\ res' = NoResult /\ out' = << >>
    /\ UNCHANGED <<objs, chars, locals>>

(***************************************************************************)
(* Operators that return a new value                                       *)
(***************************************************************************)

UnaryPlus == Ready /\ Return("+a", Ok(a)) /\ UNCHANGED objs
UnaryMinus == Ready /\ Return("-a", Ok(Neg(a))) /\ UNCHANGED objs
Abs == Ready /\ Return("abs", Ok(abs(a))) /\ UNCHANGED objs
Plus == Ready /\ Return("+", Ok(Add(a, b))) /\ UNCHANGED objs
Minus == Ready /\ Return("-", Ok(Sub(a, b))) /\ UNCHANGED objs
Times == Ready /\ Return("*", Ok(Mul(a, b))) /\ UNCHANGED objs
Divide == Ready /\ Return("/", Div(a, b)) /\ UNCHANGED objs
Modulo == Ready /\ Return("%", Mod(a, b)) /\ UNCHANGED objs

(***************************************************************************)
(* Compound assignment: *this = *this op rhs                               *)
(***************************************************************************)

\* Variant: the result is returned but not assigned.
Assign_dropped(name, outcome) ==
    /\ Ready
    /\ outcome.err = NoError => InBound(outcome.val[1])
    /\ a' = a
    /\ Return(name, outcome)
    /\ UNCHANGED <<b, c>>

\* The assignment happens only if the operator returned; a throw leaves a.
Assign(name, outcome) ==
    /\ Ready
    /\ outcome.err = NoError => InBound(outcome.val[1])
    /\ a' = IF outcome.err = NoError THEN outcome.val[1] ELSE a
    /\ Return(name, outcome)
    /\ UNCHANGED <<b, c>>

PlusAssign == Assign("+=", Ok(Add(a, b)))
MinusAssign == Assign("-=", Ok(Sub(a, b)))
TimesAssign == Assign("*=", Ok(Mul(a, b)))
DivideAssign == Assign("/=", Div(a, b))
ModuloAssign == Assign("%=", Mod(a, b))
\* a op= a: both operands are the same object.
PlusAssignSelf == Assign("a+=a", Ok(Add(a, a)))
MinusAssignSelf == Assign("a-=a", Ok(Sub(a, a)))
TimesAssignSelf == Assign("a*=a", Ok(Mul(a, a)))
DivideAssignSelf == Assign("a/=a", Div(a, a))
ModuloAssignSelf == Assign("a%=a", Mod(a, a))

PreIncrement == Assign("++", Ok(Increment(a)))
PreDecrement == Assign("--", Ok(Decrement(a)))

(***************************************************************************)
(* Member and static functions that return at once                         *)
(***************************************************************************)

Factorial == Ready /\ Return("factorial", factorial(a)) /\ UNCHANGED objs
Pow ==
    /\ Ready
    /\ Compare(abs(b), IntOf(MaxExp)) <= 0
    /\ \E m \in -MaxMod..MaxMod : Return("pow", pow(a, b, IntOf(m)))
    /\ UNCHANGED objs
Log == Ready /\ Return("log", log(a, b)) /\ UNCHANGED objs
Gcd == Ready /\ Return("gcd", Ok(gcd(a, b))) /\ UNCHANGED objs
Lcm == Ready /\ Return("lcm", Ok(lcm(a, b))) /\ UNCHANGED objs

\* os << a.
Output ==
    /\ Ready
    /\ op' = "<<" /\ res' = NoResult /\ out' = Write(a)
    /\ UNCHANGED <<objs, chars, locals>>

(***************************************************************************)
(* sqrt: Newton's method, one action per pass of the while loop            *)
(***************************************************************************)

\* Variant: the case integer < 16 returns 2.
SqrtCall_two ==
    /\ Ready
    /\ IF a.sign_ = -1 THEN Return("sqrt", Throw(NegativeSqrt))
       ELSE IF is_zero(a) THEN Return("sqrt", Ok(IntOf(0)))
       ELSE IF Less(a, IntOf(4)) THEN Return("sqrt", Ok(IntOf(1)))
       ELSE IF Less(a, IntOf(9)) THEN Return("sqrt", Ok(IntOf(2)))
       ELSE IF Less(a, IntOf(16)) THEN Return("sqrt", Ok(IntOf(2)))
       ELSE /\ cur_sqrt' = [sign_ |-> 1, digits_ |-> Zeros(digits(a) \div 2 - 1) \o <<1>>]
            /\ pre_sqrt' = IntOf(-1)
            /\ pc' = "sqrt"
            /\ op' = "sqrt" /\ res' = NoResult
            /\ UNCHANGED <<out, chars, count, requested, native, np_locals, div_locals, vert>>
    /\ UNCHANGED objs

\* Int::sqrt(a) up to the loop: the throw, the small cases, the first iterate.
SqrtCall ==
    /\ Ready
    /\ IF a.sign_ = -1 THEN Return("sqrt", Throw(NegativeSqrt))
       ELSE IF is_zero(a) THEN Return("sqrt", Ok(IntOf(0)))
       ELSE IF Less(a, IntOf(4)) THEN Return("sqrt", Ok(IntOf(1)))
       ELSE IF Less(a, IntOf(9)) THEN Return("sqrt", Ok(IntOf(2)))
       ELSE IF Less(a, IntOf(16)) THEN Return("sqrt", Ok(IntOf(3)))
       ELSE /\ cur_sqrt' = [sign_ |-> 1, digits_ |-> Zeros(digits(a) \div 2 - 1) \o <<1>>]
            /\ pre_sqrt' = IntOf(-1)
            /\ pc' = "sqrt"
            /\ op' = "sqrt" /\ res' = NoResult
            /\ UNCHANGED <<out, chars, count, requested, native, np_locals, div_locals, vert>>
    /\ UNCHANGED objs

\* One pass of while (cur_sqrt != pre_sqrt):
\* pre_sqrt = cur_sqrt; cur_sqrt = (cur_sqrt + integer / cur_sqrt) / 2.
SqrtIterate ==
    /\ pc = "sqrt"
    /\ ~Equal(cur_sqrt, pre_sqrt)
    /\ LET q == Div(a, cur_sqrt)
       IN  IF q.err # NoError
           THEN /\ res' = q /\ pc' = "idle"
                /\ cur_sqrt' = Zero /\ pre_sqrt' = Zero
           ELSE /\ pre_sqrt' = cur_sqrt
                /\ cur_sqrt' = Quotient(Add(cur_sqrt, q.val[1]), IntOf(2))
                /\ UNCHANGED <<res, pc>>
    /\ UNCHANGED <<objs, op, out, chars, count, requested, native, np_locals, div_locals, vert>>

\* The loop ends when the iterate repeats: return cur_sqrt.
SqrtReturn ==
    /\ pc = "sqrt"
    /\ Equal(cur_sqrt, pre_sqrt)
    /\ res' = Ok(cur_sqrt)
    /\ pc' = "idle"
    /\ cur_sqrt' = Zero /\ pre_sqrt' = Zero
    /\ UNCHANGED <<objs, op, out, chars, count, requested, native, np_locals, div_locals, vert>>

(***************************************************************************)
(* next_prime: one action per trial division                               *)
(***************************************************************************)

\* The largest value of the native int type.
INT_MAX == 2147483647

\* i * i is representable in an int.
SquareFits(n) == n <= INT_MAX \div n

\* a.next_prime() up to the while loop.
NextPrimeCall ==
    /\ Ready
    /\ IF Less(a, IntOf(2)) THEN Return("next_prime", Ok(IntOf(2)))
       ELSE /\ prime' = (IF is_even(a) THEN abs_dec(a) ELSE a)
            /\ i' = 0
            /\ pc' = "np_while"
            /\ op' = "next_prime" /\ res' = NoResult
            /\ UNCHANGED <<out, chars, count, requested, native, sqrt_locals, div_locals, vert>>
    /\ UNCHANGED objs

\* The search is followed while the candidate is less than MaxGap above the
\* argument.
MaxGap == 20

\* Top of while (true): prime.abs_inc(); prime.abs_inc(); i = 2.
NextPrimeAdvance ==
    /\ pc = "np_while"
    /\ Less(Sub(prime, a), IntOf(MaxGap))
    /\ prime' = abs_inc(abs_inc(prime))
    /\ i' = 2
    /\ pc' = "np_for"
    /\ UNCHANGED <<objs, op, res, out, chars, count, requested, native, sqrt_locals, div_locals, vert>>

\* One test of for (int i = 2; i * i <= prime; i++), with i * i in range:
\* a divisor ends the for loop and the while loop goes on; past the square
\* root the candidate is returned.
NextPrimeTrial ==
    /\ pc = "np_for"
    /\ SquareFits(i)
    /\ IF Compare(IntOf(i * i), prime) <= 0
       THEN IF Equal(Remainder(prime, IntOf(i)), IntOf(0))
            THEN pc' = "np_while" /\ UNCHANGED <<prime, i, res>>
            ELSE i' = i + 1 /\ UNCHANGED <<prime, pc, res>>
       ELSE res' = Ok(prime) /\ pc' = "idle" /\ prime' = Zero /\ i' = 0
    /\ UNCHANGED <<objs, op, out, chars, count, requested, native, sqrt_locals, div_locals, vert>>

\* The trial loop is followed past the overflow while i is below MaxTrial.
MaxTrial == 46360

\* One test of the for loop with i * i not representable in an int: signed
\* overflow, which is undefined, so i * i <= prime comes out either way.
\* False: the loop ends with is_prime still true and the candidate is
\* returned.  True: the body runs as in NextPrimeTrial.
NextPrimeOverflow ==
    /\ pc = "np_for"
    /\ ~SquareFits(i)
    /\ \/ res' = Ok(prime) /\ pc' = "idle" /\ prime' = Zero /\ i' = 0
       \/ IF Equal(Remainder(prime, IntOf(i)), IntOf(0))
          THEN pc' = "np_while" /\ UNCHANGED <<prime, i, res>>
          ELSE i < MaxTrial /\ i' = i + 1 /\ UNCHANGED <<prime, pc, res>>
    /\ UNCHANGED <<objs, op, out, chars, count, requested, native, sqrt_locals, div_locals, vert>>

(***************************************************************************)
(* Specification: every public operation on objects within MaxAbs          *)
(***************************************************************************)

Next ==
    \/ Construct \/ CopyAssign \/ StoreA \/ StoreB \/ Discard
    \/ UnaryPlus \/ UnaryMinus \/ Abs
    \/ Plus \/ Minus \/ Times \/ Divide \/ Modulo
    \/ PlusAssign \/ MinusAssign \/ TimesAssign \/ DivideAssign \/ ModuloAssign
    \/ PlusAssignSelf \/ MinusAssignSelf
    \/ TimesAssignSelf \/ DivideAssignSelf \/ ModuloAssignSelf
    \/ PreIncrement \/ PreDecrement
    \/ Factorial \/ Pow \/ Log \/ Gcd \/ Lcm
    \/ Output
    \/ SqrtCall \/ SqrtIterate \/ SqrtReturn
    \/ NextPrimeCall \/ NextPrimeAdvance \/ NextPrimeTrial

Spec == Init /\ [][Next]_vars

(***************************************************************************)
(* Specification: the binary functions on two operands of wider range      *)
(***************************************************************************)

\* a ranges over -MaxDividend..MaxDividend, b over -MaxDivisor..MaxDivisor.
MaxDividend == 120
MaxDivisor == 12

InitPair ==
    /\ a \in {IntOf(n) : n \in -MaxDividend..MaxDividend}
    /\ b \in {IntOf(n) : n \in -MaxDivisor..MaxDivisor}
    /\ c = Zero
    /\ op = "none" /\ res = NoResult /\ out = << >> /\ chars = << >>
    /\ InitLocals

NextPair == Divide \/ Modulo \/ Gcd \/ Lcm

SpecPair == InitPair /\ [][NextPair]_vars

(***************************************************************************)
(* Specification: expressions over three operands                          *)
(***************************************************************************)

MaxTermA == 101
MaxTermB == 10
MaxTermC == 2

InitTerms ==
    /\ a \in {IntOf(n) : n \in -MaxTermA..MaxTermA}
    /\ b \in {IntOf(n) : n \in -MaxTermB..MaxTermB}
    /\ c \in {IntOf(n) : n \in -MaxTermC..MaxTermC}
    /\ op = "none" /\ res = NoResult /\ out = << >> /\ chars = << >>
    /\ InitLocals

\* (a + b) + c
SumLeft == Ready /\ Return("(a+b)+c", Ok(Add(Add(a, b), c))) /\ UNCHANGED objs
\* a * (b + c)
TimesSum == Ready /\ Return("a*(b+c)", Ok(Mul(a, Add(b, c)))) /\ UNCHANGED objs

NextTerms == Plus \/ UnaryMinus \/ SumLeft \/ TimesSum

SpecTerms == InitTerms /\ [][NextTerms]_vars

(***************************************************************************)
(* Specification: next_prime, on small arguments and on one whose next     *)
(* prime is above the largest i with i * i representable                   *)
(***************************************************************************)

\* The C string of a sequence of decimal digits, with an optional '-'.
RECURSIVE Text(_)
Text(ds) == IF ds = << >> THEN << >> ELSE <<ds[1] + CharZero>> \o Text(Tail(ds))
MinusText(ds) == <<CharMinus>> \o Text(ds)

PrimeArguments ==
    {MinusText(<<7>>), Text(<<0>>), Text(<<1>>), Text(<<2>>), Text(<<3>>), Text(<<8>>),
     Text(<<1, 3>>), Text(<<2, 4>>), Text(<<8, 9>>), Text(<<1, 1, 3>>),
     Text(<<2, 1, 5, 1, 1, 9, 6, 2, 6, 0>>)}

InitPrime ==
    /\ a \in {IntFromChars(s).val[1] : s \in PrimeArguments}
    /\ b = Zero /\ c = Zero
    /\ op = "none" /\ res = NoResult /\ out = << >> /\ chars = << >>
    /\ InitLocals

NextPrime == NextPrimeCall \/ NextPrimeAdvance \/ NextPrimeTrial \/ NextPrimeOverflow

SpecPrime == InitPrime /\ [][NextPrime]_vars

(***************************************************************************)
(* Specification: construction from any string, and writing what was       *)
(* constructed                                                             *)
(***************************************************************************)

\* The strings handed to the constructor have at most MaxText characters.
MaxText == 4

\* The signs, the digits 0, 1 and 9, the characters next to '0' and '9' in
\* ASCII ('/' and ':'), and a blank.
TextAlphabet ==
    {CharPlus, CharMinus, CharZero - 1, CharZero, CharZero + 1, CharNine, CharNine + 1, 32}

RECURSIVE TextsOfLen(_)
TextsOfLen(n) ==
    IF n = 0 THEN {<< >>}
    ELSE {<<ch>> \o t : ch \in TextAlphabet, t \in TextsOfLen(n - 1)}

Texts == UNION {TextsOfLen(n) : n \in 0..MaxText}

InitText ==
    /\ chars \in Texts
    /\ a = Zero /\ b = Zero /\ c = Zero
    /\ op = "none" /\ res = NoResult /\ out = << >>
    /\ InitLocals

\* Int(chars).
FromChars == Ready /\ Return("Int(chars)", IntFromChars(chars)) /\ UNCHANGED objs

\* os << Int(chars): nothing is written when the constructor throws.
WriteFromChars ==
    /\ Ready
    /\ op' = "<<Int(chars)"
    /\ res' = IntFromChars(chars)
    /\ out' = IF res'.err = NoError THEN Write(res'.val[1]) ELSE << >>
    /\ UNCHANGED <<objs, chars, locals>>

NextText == FromChars \/ WriteFromChars

SpecText == InitText /\ [][NextText]_vars

(***************************************************************************)
(* Specification: sqrt on every argument up to MaxRadicand in magnitude    *)
(***************************************************************************)

MaxRadicand == 150

InitSqrt ==
    /\ a \in {IntOf(n) : n \in -MaxRadicand..MaxRadicand}
    /\ b = Zero /\ c = Zero
    /\ op = "none" /\ res = NoResult /\ out = << >> /\ chars = << >>
    /\ InitLocals

NextSqrt == SqrtCall \/ SqrtIterate \/ SqrtReturn

SpecSqrt == InitSqrt /\ [][NextSqrt]_vars

\* One pass of the loop body seen by its first statement, pre_sqrt = cur_sqrt,
\* which changes pre_sqrt in every pass.
SqrtPass == pc = "sqrt" /\ ~Equal(cur_sqrt, pre_sqrt) /\ pre_sqrt' = cur_sqrt

\* A call that has entered the while loop keeps running: neither a pass of
\* the loop body nor the return after the loop is held up by anything.
SpecSqrtRuns == SpecSqrt /\ WF_pre_sqrt(SqrtPass) /\ WF_vars(SqrtReturn)

(***************************************************************************)
(* Specification: pow on a base, an exponent and a modulus                 *)
(***************************************************************************)

\* Bases are -MaxBase..MaxBase, exponents -MaxPower..MaxPower and moduli
\* -MaxModulus..MaxModulus.
MaxBase == 6
MaxPower == 6
MaxModulus == 4

InitPow ==
    /\ a \in {IntOf(n) : n \in -MaxBase..MaxBase}
    /\ b \in {IntOf(n) : n \in -MaxPower..MaxPower}
    /\ c \in {IntOf(n) : n \in -MaxModulus..MaxModulus}
    /\ op = "none" /\ res = NoResult /\ out = << >> /\ chars = << >>
    /\ InitLocals

\* Int::pow(a, b): the modulus takes its default, 0.
PowDefault == Ready /\ Return("pow(a,b)", pow(a, b, IntOf(0))) /\ UNCHANGED objs

\* Int::pow(a, b, c).
PowMod == Ready /\ Return("pow(a,b,c)", pow(a, b, c)) /\ UNCHANGED objs

NextPow == PowDefault \/ PowMod

SpecPow == InitPow /\ [][NextPow]_vars

(***************************************************************************)
(* Specification: comparison of three operands                             *)
(***************************************************************************)

\* a ranges over -MaxOrderA..MaxOrderA, b and c over -MaxOrder..MaxOrder.
MaxOrderA == 105
MaxOrder == 12

InitOrder ==
    /\ a \in {IntOf(n) : n \in -MaxOrderA..MaxOrderA}
    /\ b \in {IntOf(n) : n \in -MaxOrder..MaxOrder}
    /\ c \in {IntOf(n) : n \in -MaxOrder..MaxOrder}
    /\ op = "none" /\ res = NoResult /\ out = << >> /\ chars = << >>
    /\ InitLocals

\* a <=> b: the int returned is left in res.
ThreeWay == Ready /\ Return("<=>", Ok(Compare(a, b))) /\ UNCHANGED objs

\* a == b: the bool returned is left in res.
EqualTo == Ready /\ Return("==", Ok(Equal(a, b))) /\ UNCHANGED objs

NextOrder == ThreeWay \/ EqualTo

SpecOrder == InitOrder /\ [][NextOrder]_vars

(***************************************************************************)
(* operator/ and operator% pass by pass: one action per test of the for    *)
(* loop and per test of the while loop                                     *)
(***************************************************************************)

\* The locals of operator/ and operator% after the call has returned.
DivLocalsGone ==
    /\ num1' = Zero /\ tmp' = Zero /\ quot' = << >> /\ pos' = 0 /\ passes' = 0

\* a / b or a % b up to the for loop: the throw, the short dividend, and the
\* locals num1 (result in operator%), tmp and result.digits_.
LongCall(name) ==
    /\ Ready
    /\ IF b.sign_ = 0 THEN Return(name, Throw(DivideByZero))
       ELSE IF digits(a) < digits(b)
            THEN Return(name, Ok(IF name = "/ by passes" THEN IntOf(0) ELSE a))
       ELSE /\ num1' = abs(a)
            /\ tmp' = [sign_ |-> 1,
                       digits_ |-> Zeros(Len(a.digits_) - Len(b.digits_) + 1) \o b.digits_]
            /\ quot' = IF name = "/ by passes"
                       THEN Zeros(Len(a.digits_) - Len(b.digits_) + 1) ELSE << >>
            /\ pos' = Len(a.digits_) - Len(b.digits_)
            /\ passes' = 0
            /\ pc' = "div_for"
            /\ op' = name /\ res' = NoResult
            /\ UNCHANGED <<out, chars, count, requested, native, sqrt_locals, np_locals, vert>>
    /\ UNCHANGED objs

LongDivideCall == LongCall("/ by passes")
LongModuloCall == LongCall("% by passes")

\* The test i >= 0 of the for loop: the erase that shifts tmp, or the end of
\* the loop, the removal of leading zeros, the sign and the return.
LongFor ==
    /\ pc = "div_for"
    /\ IF pos >= 0
       THEN /\ tmp' = [tmp EXCEPT !.digits_ = EraseFirst(@)]
            /\ passes' = 0
            /\ pc' = "div_while"
            /\ UNCHANGED <<res, num1, quot, pos>>
       ELSE /\ res' = Ok(IF op = "/ by passes"
                         THEN ZeroSignIfEmpty(remove_leading_zeros(
                                  [sign_ |-> IF a.sign_ = b.sign_ THEN 1 ELSE -1,
                                   digits_ |-> quot]))
                         ELSE [remove_leading_zeros(num1) EXCEPT
                                  !.sign_ = IF remove_leading_zeros(num1).digits_ = << >>
                                            THEN 0 ELSE a.sign_])
            /\ pc' = "idle"
            /\ DivLocalsGone
    /\ UNCHANGED <<objs, op, out, chars, count, requested, native, sqrt_locals, np_locals, vert>>

\* The test num1 >= tmp of the while loop: one pass (the digit at i is
\* incremented in operator/, tmp is subtracted), or i-- and the next test of
\* the for loop.
LongWhile ==
    /\ pc = "div_while"
    /\ IF GreaterEq(num1, tmp)
       THEN /\ quot' = IF op = "/ by passes" THEN [quot EXCEPT ![pos + 1] = @ + 1] ELSE quot
            /\ num1' = Sub(num1, tmp)
            /\ passes' = passes + 1
            /\ UNCHANGED <<pc, tmp, pos>>
       ELSE /\ pos' = pos - 1
            /\ pc' = "div_for"
            /\ UNCHANGED <<num1, tmp, quot, passes>>
    /\ UNCHANGED <<objs, op, res, out, chars, count, requested, native, sqrt_locals, np_locals, vert>>

(***************************************************************************)
(* Specification: division and remainder pass by pass                      *)
(***************************************************************************)

NextLong == LongDivideCall \/ LongModuloCall \/ LongFor \/ LongWhile

SpecLong == InitPair /\ [][NextLong]_vars

(***************************************************************************)
(* Specification: sequences of ++a and --a from zero                       *)
(***************************************************************************)

\* ++a is applied while count is below MaxCount, --a while it is above
\* -MaxCount.
MaxCount == 110

InitCount ==
    /\ a = Zero /\ b = Zero /\ c = Zero
    /\ op = "none" /\ res = NoResult /\ out = << >> /\ chars = << >>
    /\ InitLocals

\* ++a, counted; the reference returned is to a.
StepUp ==
    /\ pc = "idle" /\ count < MaxCount
    /\ a' = Increment(a)
    /\ count' = count + 1
    /\ op' = "++a" /\ res' = Ok(a')
    /\ UNCHANGED <<b, c, out, chars, pc, requested, native, sqrt_locals, np_locals, div_locals, vert>>

\* --a, counted; the reference returned is to a.
StepDown ==
    /\ pc = "idle" /\ count > -MaxCount
    /\ a' = Decrement(a)
    /\ count' = count - 1
    /\ op' = "--a" /\ res' = Ok(a')
    /\ UNCHANGED <<b, c, out, chars, pc, requested, native, sqrt_locals, np_locals, div_locals, vert>>

NextCount == StepUp \/ StepDown

SpecCount == InitCount /\ [][NextCount]_vars

(***************************************************************************)
(* Specification: log on an argument and a base                            *)
(***************************************************************************)

\* a ranges over -MaxLogArg..MaxLogArg, b over -MaxLogBase..MaxLogBase.
MaxLogArg == 1050
MaxLogBase == 11

InitLog ==
    /\ a \in {IntOf(n) : n \in -MaxLogArg..MaxLogArg}
    /\ b \in {IntOf(n) : n \in -MaxLogBase..MaxLogBase}
    /\ c = Zero
    /\ op = "none" /\ res = NoResult /\ out = << >> /\ chars = << >>
    /\ InitLocals

NextLog == Log

SpecLog == InitLog /\ [][NextLog]_vars

(***************************************************************************)
(* Specification: random                                                   *)
(***************************************************************************)

\* The argument ranges over -MaxRequest..MaxRequest; every draw of the
\* digits is taken for at most MaxRequest cells.
MaxRequest == 3

\* std::uniform_int_distribution<int> digits_limit(0, 4300).
DigitsLimit == 4300

\* n copies of d.
RECURSIVE Repeat(_, _)
Repeat(d, n) ==
    IF n = 0 THEN << >>
    ELSE IF n % 2 = 0 THEN LET h == Repeat(d, n \div 2) IN h \o h
    ELSE Append(Repeat(d, n - 1), d)

\* What the loop d = digit(gen) can leave in n cells: every sequence of
\* digits for n <= MaxRequest; for longer vectors the draws taken are the
\* ones that repeat one digit below the most-significant cell.
RECURSIVE Drawn(_)
Drawn(n) ==
    IF n = 0 THEN {<< >>}
    ELSE IF n <= MaxRequest THEN {Append(s, d) : s \in Drawn(n - 1), d \in 0..9}
    ELSE {Append(Repeat(f, n - 1), d) : f \in 0..9, d \in 0..9}

\* The sizes taken from digits_limit(gen): the short ones and the limit.
SizesDrawn == {n \in 0..DigitsLimit : n <= MaxRequest \/ n = DigitsLimit}

\* Variant: the most-significant digit is left as drawn.
random_as_drawn(digits_, cells, most) ==
    IF digits_ < -1 THEN Throw(InvalidDigits)
    ELSE Ok([sign_ |-> IF cells = << >> THEN 0 ELSE 1, digits_ |-> cells])

\* Int::random(digits), where cells is what the loop drew into the resized
\* vector and most is what most_digit(gen) gives if it is asked.
random(digits_, cells, most) ==
    IF digits_ < -1 THEN Throw(InvalidDigits)
    ELSE Ok([sign_ |-> IF cells = << >> THEN 0 ELSE 1,
             digits_ |-> IF cells # << >> /\ cells[Len(cells)] = 0
                         THEN [cells EXCEPT ![Len(cells)] = most]
                         ELSE cells])

\* Int::random(d).
Random ==
    /\ Ready
    /\ \E d \in -MaxRequest..MaxRequest :
        /\ requested' = d
        /\ op' = "random"
        /\ \E n \in (IF d = -1 THEN SizesDrawn ELSE IF d < -1 THEN {0} ELSE {d}) :
           \E cells \in Drawn(n) : \E most \in 1..9 :
               res' = random(d, cells, most)
    /\ UNCHANGED <<objs, out, chars, pc, sqrt_locals, np_locals, div_locals, count, native, vert>>

InitRandom ==
    /\ a = Zero /\ b = Zero /\ c = Zero
    /\ op = "none" /\ res = NoResult /\ out = << >> /\ chars = << >>
    /\ InitLocals

NextRandom == Random \/ Discard

SpecRandom == InitRandom /\ [][NextRandom]_vars

(***************************************************************************)
(* Specification: products                                                 *)
(***************************************************************************)

\* a ranges over -MaxFactorA..MaxFactorA and b over -MaxFactorB..MaxFactorB,
\* and each also over the 18-digit values below.
MaxFactorA == 250
MaxFactorB == 120

\* Int("123456789123456789") and Int("246913578246913578").
LongFactor == [sign_ |-> 1, digits_ |-> <<9, 8, 7, 6, 5, 4, 3, 2, 1, 9, 8, 7, 6, 5, 4, 3, 2, 1>>]
LongDoubled == [sign_ |-> 1, digits_ |-> <<8, 7, 5, 3, 1, 9, 6, 4, 2, 8, 7, 5, 3, 1, 9, 6, 4, 2>>]

InitProduct ==
    /\ a \in {IntOf(n) : n \in -MaxFactorA..MaxFactorA} \cup {LongFactor, Neg(LongFactor)}
    /\ b \in {IntOf(n) : n \in -MaxFactorB..MaxFactorB} \cup {LongFactor, Neg(LongFactor)}
    /\ c = Zero
    /\ op = "none" /\ res = NoResult /\ out = << >> /\ chars = << >>
    /\ InitLocals

NextProduct == Times

SpecProduct == InitProduct /\ [][NextProduct]_vars

(***************************************************************************)
(* Specification: differences                                              *)
(***************************************************************************)

\* a and b range over -MaxDiff..MaxDiff.
MaxDiff == 150

InitDifference ==
    /\ a \in {IntOf(n) : n \in -MaxDiff..MaxDiff}
    /\ b \in {IntOf(n) : n \in -MaxDiff..MaxDiff}
    /\ c = Zero
    /\ op = "none" /\ res = NoResult /\ out = << >> /\ chars = << >>
    /\ InitLocals

\* a - a
MinusSelf == Ready /\ Return("a-a", Ok(Sub(a, a))) /\ UNCHANGED objs

NextDifference == Minus \/ MinusSelf

SpecDifference == InitDifference /\ [][NextDifference]_vars

(***************************************************************************)
(* Specification: construction from a native int and conversion back       *)
(***************************************************************************)

\* The arguments are -MaxNative..MaxNative and the ends of the int range.
MaxNative == 120

\* The smallest value of the native int type.
INT_MIN == -INT_MAX - 1

Natives == (-MaxNative..MaxNative) \cup {INT_MIN, INT_MIN + 1, INT_MAX - 1, INT_MAX}

\* push_back(integer % 10); integer /= 10 on a negative integer until it is
\* zero: % and / truncate toward zero, so every digit pushed is in -9..0.
RECURSIVE IntDigitsBelow(_)
IntDigitsBelow(n) ==
    IF n = 0 THEN << >>
    ELSE LET d == (10 - (n % 10)) % 10 IN <<-d>> \o IntDigitsBelow((n + d) \div 10)

\* Int::Int(int integer): std::abs(INT_MIN) is undefined. Either it wraps to
\* INT_MIN and the loop `while (integer > 0)` does not run, or the test is
\* compiled as integer != 0 (std::abs never returns a negative value) and the
\* loop runs on INT_MIN.
IntOfNative(n) ==
    IF n # INT_MIN THEN {IntOf(n)}
    ELSE {[sign_ |-> -1, digits_ |-> << >>],
          [sign_ |-> -1, digits_ |-> IntDigitsBelow(n)]}

\* for (i = digits_.size() - 1; i >= 0; i--) result = result * 10 + digits_[i];
RECURSIVE ToIntegerLoop(_, _, _)
ToIntegerLoop(result, ds, k) ==
    IF k < 1 THEN result ELSE ToIntegerLoop(result * 10 + ds[k], ds, k - 1)

\* Variant: the sign is not applied.
to_integer_unsigned(x) == ToIntegerLoop(0, x.digits_, Len(x.digits_))

\* Int::to_integer<int>(): return result * sign_, where INT_MIN * -1 wraps
\* to INT_MIN.
to_integer(x) ==
    LET result == ToIntegerLoop(0, x.digits_, Len(x.digits_))
    IN  IF result = INT_MIN THEN (IF x.sign_ = 0 THEN 0 ELSE INT_MIN)
        ELSE result * x.sign_

\* a = Int(n).
ConstructNative ==
    /\ Ready
    /\ \E n \in Natives : \E v \in IntOfNative(n) :
        /\ native' = n
        /\ a' = v
    /\ op' = "Int(int)" /\ res' = NoResult
    /\ UNCHANGED <<b, c, out, chars, pc, sqrt_locals, np_locals, div_locals, count,
                   requested, vert>>

\* a.to_integer<int>() on the value just constructed.
ToInteger ==
    /\ pc = "idle" /\ op = "Int(int)"
    /\ op' = "to_integer" /\ res' = Ok(to_integer(a))
    /\ UNCHANGED <<objs, out, chars, locals>>

InitNative ==
    /\ a = Zero /\ b = Zero /\ c = Zero
    /\ op = "none" /\ res = NoResult /\ out = << >> /\ chars = << >>
    /\ InitLocals

NextNative == ConstructNative \/ ToInteger \/ Discard

SpecNative == InitNative /\ [][NextNative]_vars

(***************************************************************************)
(* Specification: the vertical loops of operator+, operator- and operator*, *)
(* one statement at a time, on cells of type std::int8_t                   *)
(***************************************************************************)

\* The operands are -MaxCell..MaxCell and the values of LongCells.
MaxCell == 20

LongCells == {-1000, -999, -100, -99, 99, 100, 999, 1000}

CellOperands == {IntOf(n) : n \in (-MaxCell..MaxCell) \cup LongCells}

\* The value an int takes when it is stored in a std::int8_t.
Int8(v) == ((v + 128) % 256) - 128

\* v / 10 and v % 10 on native ints (rounded toward zero).
CellDiv(v) == IF v >= 0 THEN v \div 10 ELSE -((-v) \div 10)
CellRem(v) == v - 10 * CellDiv(v)

\* operator+ up to its loop: which loop runs, and on which operands.
PlusRoute(x, y) ==
    IF x.sign_ = 0 \/ y.sign_ = 0 THEN [loop |-> "none", x |-> x, y |-> y]
    ELSE IF x.sign_ = 1 /\ y.sign_ = -1 THEN [loop |-> "sub_for", x |-> x, y |-> Neg(y)]
    ELSE IF x.sign_ = -1 /\ y.sign_ = 1 THEN [loop |-> "sub_for", x |-> y, y |-> Neg(x)]
    ELSE [loop |-> "add_for", x |-> x, y |-> y]

\* operator- up to its loop.
MinusRoute(x, y) ==
    IF x.sign_ = 0 \/ y.sign_ = 0 THEN [loop |-> "none", x |-> x, y |-> y]
    ELSE IF x.sign_ # y.sign_ THEN [loop |-> "add_for", x |-> x, y |-> Neg(y)]
    ELSE [loop |-> "sub_for", x |-> x, y |-> y]

\* operator* up to its loop.
TimesRoute(x, y) ==
    IF x.sign_ = 0 \/ y.sign_ = 0 THEN [loop |-> "none", x |-> x, y |-> y]
    ELSE [loop |-> "mul_for", x |-> x, y |-> y]

\* The variables prepared by operator+ for operands of one sign.
AddEnter(x, y) ==
    LET size == Max(Len(x.digits_), Len(y.digits_)) + 1
        p1 == add_leading_zeros(x, size - 1 - Len(x.digits_))
        p2 == add_leading_zeros(y, size - 1 - Len(y.digits_))
    IN  [a |-> p1.digits_, b |-> p2.digits_, c |-> Zeros(size),
         i |-> 1, j |-> 1, stmt |-> 1, size |-> size, sign_ |-> x.sign_]

\* Variant: num1 and num2 are not swapped.
SubEnter_unswapped(x, y) ==
    LET size == Max(Len(x.digits_), Len(y.digits_))
        p1 == add_leading_zeros(x, size - Len(x.digits_))
        p2 == add_leading_zeros(y, size - Len(y.digits_))
    IN  [a |-> p1.digits_, b |-> p2.digits_, c |-> Zeros(size),
         i |-> 1, j |-> 1, stmt |-> 1, size |-> size, sign_ |-> x.sign_]

\* The variables prepared by operator- for operands of one sign.
SubEnter(x, y) ==
    LET size == Max(Len(x.digits_), Len(y.digits_))
        p1 == add_leading_zeros(x, size - Len(x.digits_))
        p2 == add_leading_zeros(y, size - Len(y.digits_))
        swap == IF x.sign_ = 1 THEN Less(p1, p2) ELSE Greater(p1, p2)
    IN  [a |-> (IF swap THEN p2 ELSE p1).digits_, b |-> (IF swap THEN p1 ELSE p2).digits_,
         c |-> Zeros(size),
         i |-> 1, j |-> 1, stmt |-> 1, size |-> size,
         sign_ |-> IF swap THEN -x.sign_ ELSE x.sign_]

\* The variables prepared by operator*.
MulEnter(x, y) ==
    LET size == Len(x.digits_) + Len(y.digits_)
    IN  [a |-> x.digits_, b |-> y.digits_, c |-> Zeros(size),
         i |-> 1, j |-> 1, stmt |-> 1, size |-> size,
         sign_ |-> IF x.sign_ = y.sign_ THEN 1 ELSE -1]

Enter(route) ==
    IF route.loop = "add_for" THEN AddEnter(route.x, route.y)
    ELSE IF route.loop = "sub_for" THEN SubEnter(route.x, route.y)
    ELSE MulEnter(route.x, route.y)

\* A call of a + b, a - b or a * b up to the loop; with a zero operand it
\* returns at once.
VerticalCall(name, route, early) ==
    /\ Ready
    /\ IF route.loop = "none" THEN Return(name, Ok(early))
       ELSE /\ op' = name /\ res' = NoResult
            /\ pc' = route.loop
            /\ vert' = Enter(route)
            /\ UNCHANGED <<out, chars, sqrt_locals, np_locals, div_locals, count, requested,
                           native>>
    /\ UNCHANGED objs

VerticalPlus == VerticalCall("+", PlusRoute(a, b), IF a.sign_ = 0 THEN b ELSE a)
VerticalMinus == VerticalCall("-", MinusRoute(a, b), IF a.sign_ = 0 THEN Neg(b) ELSE a)
VerticalTimes == VerticalCall("*", TimesRoute(a, b), IntOf(0))

\* One statement of a loop body changes vert only.
VerticalStep(loop, next) ==
    /\ pc = loop
    /\ vert' = next
    /\ UNCHANGED <<objs, op, res, out, chars, pc, sqrt_locals, np_locals, div_locals, count,
                   requested, native>>

\* for (i = 0; i < size - 1; i++): c[i] += a[i] + b[i];
AddAccumulate ==
    /\ vert.stmt = 1 /\ vert.i <= vert.size - 1
    /\ VerticalStep("add_for",
           [vert EXCEPT !.c[vert.i] = Int8(@ + vert.a[vert.i] + vert.b[vert.i]), !.stmt = 2])

\* c[i + 1] = c[i] / 10;
AddCarry ==
    /\ vert.stmt = 2
    /\ VerticalStep("add_for",
           [vert EXCEPT !.c[vert.i + 1] = Int8(CellDiv(vert.c[vert.i])), !.stmt = 3])

\* c[i] %= 10; i++
AddReduce ==
    /\ vert.stmt = 3
    /\ VerticalStep("add_for",
           [vert EXCEPT !.c[vert.i] = Int8(CellRem(@)), !.stmt = 1, !.i = @ + 1])

\* for (i = 0; i < size; i++): if (a[i] < b[i]) a[i + 1]--; a write past
\* the end of the vector is undefined.
SubDecrement ==
    /\ pc = "sub_for"
    /\ vert.stmt = 1 /\ vert.i <= vert.size /\ vert.a[vert.i] < vert.b[vert.i]
    /\ IF vert.i + 1 <= vert.size
       THEN VerticalStep("sub_for",
                [vert EXCEPT !.a[vert.i + 1] = Int8(@ - 1), !.stmt = 2])
       ELSE /\ pc' = "undefined"
            /\ UNCHANGED <<objs, op, res, out, chars, sqrt_locals, np_locals, div_locals,
                           count, requested, native, vert>>

\* a[i] += 10;
SubAddTen ==
    /\ vert.stmt = 2
    /\ VerticalStep("sub_for", [vert EXCEPT !.a[vert.i] = Int8(@ + 10), !.stmt = 3])

\* c[i] = a[i] - b[i]; i++
SubAssign ==
    /\ pc = "sub_for"
    /\ \/ vert.stmt = 3
       \/ vert.stmt = 1 /\ vert.i <= vert.size /\ ~(vert.a[vert.i] < vert.b[vert.i])
    /\ VerticalStep("sub_for",
           [vert EXCEPT !.c[vert.i] = Int8(vert.a[vert.i] - vert.b[vert.i]),
                        !.stmt = 1, !.i = @ + 1])

\* for i, for j: c[i + j] += a[i] * b[j];
MulAccumulate ==
    /\ vert.stmt = 1 /\ vert.i <= Len(vert.a)
    /\ VerticalStep("mul_for",
           [vert EXCEPT !.c[vert.i + vert.j - 1] = Int8(@ + vert.a[vert.i] * vert.b[vert.j]),
                        !.stmt = 2])

\* c[i + j + 1] += c[i + j] / 10;
MulCarry ==
    /\ vert.stmt = 2
    /\ VerticalStep("mul_for",
           [vert EXCEPT !.c[vert.i + vert.j] = Int8(@ + CellDiv(vert.c[vert.i + vert.j - 1])),
                        !.stmt = 3])

\* c[i + j] %= 10; j++, and i++ after the last j.
MulReduce ==
    /\ vert.stmt = 3
    /\ VerticalStep("mul_for",
           [vert EXCEPT !.c[vert.i + vert.j - 1] = Int8(CellRem(@)),
                        !.stmt = 1,
                        !.j = IF @ = Len(vert.b) THEN 1 ELSE @ + 1,
                        !.i = IF vert.j = Len(vert.b) THEN @ + 1 ELSE @])

\* The loop the call is in has ended.
LoopEnded ==
    /\ vert.stmt = 1
    /\ \/ pc = "add_for" /\ vert.i > vert.size - 1
       \/ pc = "sub_for" /\ vert.i > vert.size
       \/ pc = "mul_for" /\ vert.i > Len(vert.a)

\* return result.remove_leading_zeros(); operator- also sets the sign of an
\* empty result to zero.
VerticalReturn ==
    /\ LoopEnded
    /\ LET result == remove_leading_zeros([sign_ |-> vert.sign_, digits_ |-> vert.c])
       IN  res' = Ok(IF pc = "sub_for" THEN ZeroSignIfEmpty(result) ELSE result)
    /\ pc' = "idle"
    /\ vert' = NoVertical
    /\ UNCHANGED <<objs, op, out, chars, sqrt_locals, np_locals, div_locals, count,
                   requested, native>>

InitVertical ==
    /\ a \in CellOperands
    /\ b \in CellOperands
    /\ c = Zero
    /\ op = "none" /\ res = NoResult /\ out = << >> /\ chars = << >>
    /\ InitLocals

NextVertical ==
    \/ VerticalPlus \/ VerticalMinus \/ VerticalTimes
    \/ AddAccumulate \/ AddCarry \/ AddReduce
    \/ SubDecrement \/ SubAddTen \/ SubAssign
    \/ MulAccumulate \/ MulCarry \/ MulReduce
    \/ VerticalReturn

SpecVertical == InitVertical /\ [][NextVertical]_vars

(***************************************************************************)
(* The mathematical integer an Int denotes (for operands below 2^31)       *)
(***************************************************************************)

RECURSIVE Magnitude(_)
Magnitude(d) == IF d = << >> THEN 0 ELSE d[1] + 10 * Magnitude(Tail(d))

Value(x) == x.sign_ * Magnitude(x.digits_)

\* The quotient of m by n rounded toward zero.
Truncated(m, n) ==
    IF (m >= 0) = (n > 0) THEN NativeAbs(m) \div NativeAbs(n)
    ELSE -(NativeAbs(m) \div NativeAbs(n))

(***************************************************************************)
(* Properties                                                              *)
(***************************************************************************)

\* Every value an object or a result holds.
Values == {a, b, c} \cup {res.val[k] : k \in 1..Len(res.val)}

\* The representation invariant of one value.
Canonical(x) ==
    /\ x.sign_ \in {-1, 0, 1}
    /\ \A k \in 1..Len(x.digits_) : x.digits_[k] \in 0..9
    /\ x.digits_ # << >> => x.digits_[Len(x.digits_)] # 0
    /\ (x.sign_ = 0) <=> (x.digits_ = << >>)

\* C1: starting from values parsed from valid literals, after any sequence of
\* the public operations every object and every returned value has a nonzero
\* most-significant digit, and sign zero exactly when it has no digits.
C1_AllCanonical == \A x \in Values : Canonical(x)

\* a -= b has returned zero for a two-digit b: the digits were all stripped.
C1_Witness == pc = "idle" /\ op = "-=" /\ digits(b) = 2 /\ a = Zero /\ res = Ok(Zero)

\* C2: for b # 0, a == (a / b) * b + a % b, and the sign of a % b is zero or
\* the sign of a.
C2_DivModIdentity ==
    /\ (op = "/" /\ b.sign_ # 0) =>
          /\ res.err = NoError
          /\ Equal(a, Add(Mul(res.val[1], b), Remainder(a, b)))
    /\ (op = "%" /\ b.sign_ # 0) =>
          /\ res.err = NoError
          /\ res.val[1].sign_ \in {0, a.sign_}
          /\ Equal(a, Add(Mul(Quotient(a, b), b), res.val[1]))

\* A negative three-digit dividend has left a negative remainder.
C2_Witness ==
    /\ op = "%" /\ digits(a) = 3 /\ a.sign_ = -1 /\ b.sign_ = 1
    /\ res.err = NoError /\ res.val # << >> /\ res.val[1].sign_ = -1

\* C3: for b # 0, a / b is the exact quotient rounded toward zero, |a % b| < |b|,
\* and when a has fewer digits than b the quotient is zero and the remainder a.
C3_TruncatedQuotient ==
    /\ (op = "/" /\ b.sign_ # 0) =>
          /\ res = Ok(IntOf(Truncated(Value(a), Value(b))))
          /\ res.val[1].sign_ = 1 => a.sign_ = b.sign_
          /\ res.val[1].sign_ = -1 => a.sign_ = -b.sign_
          /\ digits(a) < digits(b) => res.val[1] = Zero
    /\ (op = "%" /\ b.sign_ # 0) =>
          /\ res.err = NoError
          /\ Less(abs(res.val[1]), abs(b))
          /\ NativeAbs(Value(res.val[1])) < NativeAbs(Value(b))
          /\ digits(a) < digits(b) => res.val[1] = a

\* 100 / 7 has returned 14.
C3_Witness == op = "/" /\ a = IntOf(100) /\ b = IntOf(7) /\ res = Ok(IntOf(14))

\* C4: a / 0 and a % 0 throw the divide-by-zero error and return no value;
\* a /= 0 and a %= 0 throw it too and leave a as it was.
C4_DivideByZero ==
    [][(Ready /\ b.sign_ = 0 /\ op' \in {"/", "%", "/=", "%="}) =>
          (res' = Throw(DivideByZero) /\ res'.val = << >> /\ a' = a /\ b' = b)]_vars

\* a /= 0 has thrown for an a that is not zero.
C4_Witness == op = "/=" /\ a.sign_ # 0 /\ b.sign_ = 0 /\ res.err = DivideByZero

\* C5: a + b == b + a, (a + b) + c == a + (b + c), and a + (-a) is the zero
\* with sign zero and no digits.
C5_AdditionLaws ==
    /\ op = "+" => res = Ok(Add(b, a))
    /\ op = "(a+b)+c" => res = Ok(Add(a, Add(b, c)))
    /\ op = "-a" => Add(a, res.val[1]) = Zero

\* (a + b) + c was computed for operands of mixed signs.
C5_Witness ==
    /\ op = "(a+b)+c" /\ digits(a) = 2 /\ a.sign_ = 1 /\ b.sign_ = -1 /\ c.sign_ = -1
    /\ res.err = NoError /\ res.val # << >>

\* C6: a * (b + c) == a*b + a*c for operands of any signs, zero included.
C6_Distributive ==
    op = "a*(b+c)" => res = Ok(Add(Mul(a, b), Mul(a, c)))

\* a * (b + c) was computed for a negative a and b, c of opposite signs.
C6_Witness ==
    /\ op = "a*(b+c)" /\ digits(a) = 2 /\ a.sign_ = -1 /\ b.sign_ = 1 /\ c.sign_ = -1
    /\ res.err = NoError /\ res.val # << >> /\ res.val[1].sign_ # 0

\* The residue modulo m of the number with little-endian decimal digits d.
RECURSIVE Residue(_, _)
Residue(d, m) == IF d = << >> THEN 0 ELSE (d[1] + 10 * Residue(Tail(d), m)) % m

\* Trial divisors of the reference primality test: MaxFactor * MaxFactor is
\* above every value next_prime returns here.
MaxFactor == 46400

\* n < x, for n below 10^9.
Exceeds(x, n) == x.sign_ = 1 /\ (Len(x.digits_) > 9 \/ Magnitude(x.digits_) > n)

\* x is a prime: x > 1 and no d with 1 < d < x divides x.
IsPrime(x) ==
    /\ Exceeds(x, 1)
    /\ \A d \in 2..MaxFactor : Exceeds(x, d) => Residue(x.digits_, d) # 0

\* C7: a.next_prime() is a prime greater than a with no prime strictly
\* between a and it, and is 2 for every a below 2.
C7_NextPrime ==
    (pc = "idle" /\ op = "next_prime") =>
        /\ res.err = NoError /\ res.val # << >>
        /\ Less(a, res.val[1])
        /\ IsPrime(res.val[1])
        /\ \A k \in {Add(a, IntOf(j)) : j \in 1..(MaxGap + 1)} :
               Less(k, res.val[1]) => ~IsPrime(k)
        /\ Less(a, IntOf(2)) => res.val[1] = IntOf(2)

\* C8: for a and b not both zero, gcd(a, b) is not zero and divides both.
C8_GcdDivides ==
    (op = "gcd" /\ ~(a.sign_ = 0 /\ b.sign_ = 0)) =>
        /\ res.err = NoError
        /\ res.val[1].sign_ # 0
        /\ Remainder(a, res.val[1]) = Zero
        /\ Remainder(b, res.val[1]) = Zero

\* gcd of a negative and a positive operand has returned more than 1.
C8_Witness ==
    /\ op = "gcd" /\ a.sign_ = -1 /\ b.sign_ = 1
    /\ res.val # << >> /\ Less(IntOf(1), abs(res.val[1]))

\* C9: for nonzero a and b, lcm(a, b) * gcd(a, b) == abs(a * b); lcm is zero
\* when either operand is zero.
C9_LcmGcdProduct ==
    op = "lcm" =>
        IF a.sign_ # 0 /\ b.sign_ # 0
        THEN Equal(Mul(res.val[1], gcd(a, b)), abs(Mul(a, b)))
        ELSE res = Ok(Zero)

\* C10: parsing the text written for any value an object or a result holds
\* gives back that value, sign and digits.
C10_RoundTrip ==
    /\ \A v \in Values : IntFromChars(Write(v)) = Ok(v)
    /\ op = "<<" => IntFromChars(out) = Ok(a)

\* A negative two-digit value was written.
C10_Witness == op = "<<" /\ a.sign_ = -1 /\ digits(a) = 2 /\ Len(out) = 3

(***************************************************************************)
(* Literals, by their text alone                                           *)
(***************************************************************************)

\* s without its leading sign character, if it has one.
Unsigned(s) == IF s # << >> /\ s[1] \in {CharPlus, CharMinus} THEN Tail(s) ELSE s

\* s is an optional sign followed by one or more decimal digits.
ValidLiteral(s) ==
    /\ Unsigned(s) # << >>
    /\ \A k \in 1..Len(Unsigned(s)) : Unsigned(s)[k] \in CharZero..CharNine

\* s without its leading '0' characters.
RECURSIVE DropZeros(_)
DropZeros(s) == IF s # << >> /\ s[1] = CharZero THEN DropZeros(Tail(s)) ELSE s

\* The canonical form of a valid literal.
CanonicalText(s) ==
    IF DropZeros(Unsigned(s)) = << >> THEN <<CharZero>>
    ELSE (IF s[1] = CharMinus THEN <<CharMinus>> ELSE << >>) \o DropZeros(Unsigned(s))

\* C11: writing the value parsed from a valid literal gives "0" for every
\* literal of value zero, and otherwise an optional '-' (never '+') and the
\* literal's digits without leading zeros, most-significant first.
C11_TextRoundTrip ==
    (op = "<<Int(chars)" /\ ValidLiteral(chars)) =>
        /\ res.err = NoError
        /\ out = CanonicalText(chars)
        /\ out[1] # CharPlus
        /\ (Len(out) > 1 \/ out[1] = CharMinus) => DropZeros(Unsigned(out)) = Unsigned(out)

\* "+019" was written as "19", and "-00" as "0".
C11_Witness ==
    /\ op = "<<Int(chars)"
    /\ \/ chars = <<CharPlus, CharZero, CharZero + 1, CharNine>> /\ out = <<CharZero + 1, CharNine>>
       \/ chars = <<CharMinus, CharZero, CharZero>> /\ out = <<CharZero>>

\* C12: Int(chars) returns a value exactly when chars is an optional sign
\* followed by one or more digits; for every other string it throws the
\* wrong-literal error and no value is constructed.
C12_LiteralSyntax ==
    op = "Int(chars)" =>
        IF ValidLiteral(chars) THEN res.err = NoError /\ Len(res.val) = 1
        ELSE res = Throw(WrongLiteral) /\ res.val = << >>

\* A lone sign, or a digit followed by ':', was refused.
C12_Witness ==
    /\ op = "Int(chars)" /\ res.err = WrongLiteral
    /\ chars \in {<<CharMinus>>, <<CharZero + 1, CharNine + 1>>}

\* C13: for every n >= 16 the Newton iteration of sqrt reaches an iterate
\* equal to its predecessor after finitely many steps: a call that has
\* entered the while loop returns.
C13_SqrtTerminates == (pc = "sqrt") ~> (pc = "idle" /\ op = "sqrt" /\ res.val # << >>)

RECURSIVE NativePower(_, _)
NativePower(m, n) == IF n = 0 THEN 1 ELSE m * NativePower(m, n - 1)

\* The remainder of m by n that goes with the quotient rounded toward zero.
TruncatedRem(m, n) == m - n * Truncated(m, n)

\* C15: for every exponent e >= 0, pow(b, e, m) is b^e when m is zero and
\* the truncating remainder (b^e) % m, of magnitude below |m|, when m is not
\* zero; pow(b, 0) is 1.
C15_PowValue ==
    /\ (op = "pow(a,b,c)" /\ b.sign_ >= 0) =>
          /\ res = Ok(IntOf(IF Value(c) = 0 THEN NativePower(Value(a), Value(b))
                            ELSE TruncatedRem(NativePower(Value(a), Value(b)), Value(c))))
          /\ Value(c) # 0 => NativeAbs(Value(res.val[1])) < NativeAbs(Value(c))
    /\ (op = "pow(a,b)" /\ b.sign_ >= 0) =>
          /\ res = Ok(IntOf(NativePower(Value(a), Value(b))))
          /\ b.sign_ = 0 => res = Ok(IntOf(1))

\* C16 as stated: for every negative exponent, pow(base, e) throws the
\* domain error when base is zero and returns zero otherwise.
C16_NegativeExponent ==
    (op = "pow(a,b)" /\ b.sign_ = -1) =>
        IF a.sign_ = 0 THEN res = Throw(MathDomain) ELSE res = Ok(Zero)

\* C16, amended: for every negative exponent, pow(base, e) throws the domain
\* error when base is zero, returns 1 when base is 1 or when base is -1 and e
\* is even, returns -1 when base is -1 and e is odd, and returns zero for
\* every other base.
C16_NegativeExponentUnit ==
    (op = "pow(a,b)" /\ b.sign_ = -1) =>
        IF a.sign_ = 0 THEN res = Throw(MathDomain) /\ res.val = << >>
        ELSE IF NativeAbs(Value(a)) = 1
             THEN res = Ok(IntOf(IF Value(a) = -1 /\ Value(b) % 2 = 1 THEN -1 ELSE 1))
             ELSE res = Ok(Zero)

\* pow(-1, -3) has returned -1.
C16_Witness ==
    op = "pow(a,b)" /\ a = IntOf(-1) /\ b = IntOf(-3) /\ res = Ok(IntOf(-1))

\* -1, 0 or 1 as m is below, equal to or above n.
NativeOrder(m, n) == IF m < n THEN -1 ELSE IF m = n THEN 0 ELSE 1

\* C17: a <=> b is negative, zero or positive exactly when the integer a
\* denotes is below, equal to or above the one b denotes; it is antisymmetric
\* and transitive; and a == b holds exactly when a <=> b is zero.
C17_Order ==
    /\ op = "<=>" =>
          /\ res = Ok(NativeOrder(Value(a), Value(b)))
          /\ Compare(b, a) = -res.val[1]
          /\ (res.val[1] <= 0 /\ Compare(b, c) <= 0) => Compare(a, c) <= 0
          /\ (res.val[1] < 0 /\ Compare(b, c) <= 0) => Compare(a, c) < 0
    /\ op = "==" =>
          /\ res = Ok(Compare(a, b) = 0)
          /\ res = Ok(Value(a) = Value(b))

\* Two negative values of two digits that differ in the last digit only
\* were compared.
C17_Witness ==
    /\ op = "<=>" /\ a = IntOf(-12) /\ b = IntOf(-11) /\ res = Ok(-1)

\* C18: in a / b and a % b with b not zero, at every index i of the for loop,
\* from size - 1 down to 0, the shifted divisor is |b| * 10^i, the while loop
\* makes at most 9 passes, and every digit of the quotient stays in 0..9.
C18_ShiftedDivisor ==
    /\ pc = "div_while" =>
          /\ pos \in 0..(Len(a.digits_) - Len(b.digits_))
          /\ tmp = [sign_ |-> 1, digits_ |-> Zeros(pos) \o b.digits_]
          /\ Value(tmp) = NativeAbs(Value(b)) * NativePower(10, pos)
          /\ passes \in 0..9
          /\ op = "/ by passes" => quot[pos + 1] = passes
    /\ pc \in {"div_for", "div_while"} =>
          \A k \in 1..Len(quot) : quot[k] \in 0..9
    /\ (pc = "idle" /\ op = "/ by passes") => res = Div(a, b)
    /\ (pc = "idle" /\ op = "% by passes") => res = Mod(a, b)

\* The while loop has made nine passes at index 0 for a two-digit divisor.
C18_Witness ==
    /\ pc = "div_while" /\ op = "/ by passes"
    /\ passes = 9 /\ pos = 0 /\ digits(b) = 2 /\ digits(a) = 3

\* n! for n <= 12 (12! is the largest factorial below 2^31).
RECURSIVE NativeFactorial(_)
NativeFactorial(n) == IF n = 0 THEN 1 ELSE n * NativeFactorial(n - 1)

\* The product k * (k+1) * ... * n, 1 when k > n.
RECURSIVE ProductFrom(_, _)
ProductFrom(k, n) == IF k > n THEN IntOf(1) ELSE Mul(IntOf(k), ProductFrom(k + 1, n))

\* C19: a.factorial() throws for every negative a; for every a >= 0 it
\* returns 1*2*...*a, which is 1 for a = 0; and a is left unchanged.
C19_Factorial ==
    [][op' = "factorial" =>
          /\ a' = a
          /\ IF a.sign_ = -1 THEN res' = Throw(NoFactorial) /\ res'.val = << >>
             ELSE /\ res' = Ok(ProductFrom(1, Value(a)))
                  /\ Value(a) <= 12 => res' = Ok(IntOf(NativeFactorial(Value(a))))
                  /\ a = Zero => res' = Ok(IntOf(1))]_vars

\* 10.factorial() has returned 3628800.
C19_Witness == op = "factorial" /\ a = IntOf(10) /\ res = Ok(IntOf(3628800))

\* C20: ++a leaves a equal to a + 1 and --a leaves a equal to a - 1, as
\* operator+ and operator- compute them; after any sequence of ++a and --a
\* from zero, a denotes the number of ++a minus the number of --a, and its
\* sign is zero exactly when it has no digits.
C20_Counting ==
    [][/\ op' = "++a" => a' = Add(a, IntOf(1))
       /\ op' = "--a" => a' = Sub(a, IntOf(1))
       /\ op' \in {"++a", "--a"} =>
             /\ Value(a') = count'
             /\ (a'.sign_ = 0) <=> (a'.digits_ = << >>)
             /\ Canonical(a')]_vars

\* --a has taken a from 100 to 99, and ++a had taken it from 99 to 100.
C20_Witness == op = "--a" /\ count = 99 /\ a = IntOf(99)

\* The calls that return a new value or write one.
ValueOps ==
    {"+a", "-a", "abs", "+", "-", "*", "/", "%", "factorial", "pow", "log", "gcd", "lcm",
     "sqrt", "next_prime", "<<"}

\* What a op= b leaves in a: the value of a op b, or a itself when the
\* operator throws.
Assigned(name, x, y) ==
    IF name = "+" THEN Add(x, y)
    ELSE IF name = "-" THEN Sub(x, y)
    ELSE IF name = "*" THEN Mul(x, y)
    ELSE IF y.sign_ = 0 THEN x
    ELSE IF name = "/" THEN Quotient(x, y) ELSE Remainder(x, y)

\* C21: every binary operator, unary -, abs and every static function leaves
\* its operands as they were; a op= b leaves a equal to (old a) op b and b as
\* it was; a op= a leaves a equal to (old a) op (old a).
C21_Frame ==
    [][/\ (op' \in ValueOps \/ pc # "idle" \/ pc' # "idle") => objs' = objs
       /\ op' = "+=" => a' = Assigned("+", a, b) /\ b' = b /\ c' = c
       /\ op' = "-=" => a' = Assigned("-", a, b) /\ b' = b /\ c' = c
       /\ op' = "*=" => a' = Assigned("*", a, b) /\ b' = b /\ c' = c
       /\ op' = "/=" => a' = Assigned("/", a, b) /\ b' = b /\ c' = c
       /\ op' = "%=" => a' = Assigned("%", a, b) /\ b' = b /\ c' = c
       /\ op' = "a+=a" => a' = Assigned("+", a, a) /\ b' = b /\ c' = c
       /\ op' = "a-=a" => a' = Assigned("-", a, a) /\ b' = b /\ c' = c
       /\ op' = "a*=a" => a' = Assigned("*", a, a) /\ b' = b /\ c' = c
       /\ op' = "a/=a" => a' = Assigned("/", a, a) /\ b' = b /\ c' = c
       /\ op' = "a%=a" => a' = Assigned("%", a, a) /\ b' = b /\ c' = c]_vars

\* a *= a has taken a from -4 to 16, with b another value.
C21_Witness == op = "a*=a" /\ a = IntOf(16) /\ res = Ok(IntOf(16)) /\ b = IntOf(-4)

\* C22: log(a, b) throws the domain error when a <= 0 or b < 2; otherwise it
\* returns the r >= 0 with b^r <= a < b^(r+1), which for b = 10 is
\* digits(a) - 1.
C22_FloorLog ==
    op = "log" =>
        IF Value(a) <= 0 \/ Value(b) < 2 THEN res = Throw(MathDomain) /\ res.val = << >>
        ELSE /\ res.err = NoError /\ Len(res.val) = 1
             /\ Value(res.val[1]) >= 0
             /\ NativePower(Value(b), Value(res.val[1])) <= Value(a)
             /\ Value(a) < NativePower(Value(b), Value(res.val[1]) + 1)
             /\ Value(b) = 10 => Value(res.val[1]) = digits(a) - 1

\* log(1024, 2) has returned 10.
C22_Witness == op = "log" /\ a = IntOf(1024) /\ b = IntOf(2) /\ res = Ok(IntOf(10))

\* C23: random(d) throws the invalid-argument error for every d < -1; for
\* d >= 0 it returns a non-negative canonical value of exactly d digits (zero
\* when d = 0, most-significant digit in 1..9 otherwise); for d = -1 the digit
\* count is in 0..4300 and the value is canonical, whatever is drawn.
C23_Random ==
    op = "random" =>
        IF requested < -1 THEN res = Throw(InvalidDigits)
        ELSE /\ res.err = NoError /\ Len(res.val) = 1
             /\ LET v == res.val[1]
                    n == Len(v.digits_)
                IN  /\ Canonical(v)
                    /\ v.sign_ >= 0
                    /\ requested >= 0 => n = requested
                    /\ requested = -1 => n \in 0..DigitsLimit
                    /\ n = 0 => v = Zero
                    /\ n > 0 => v.digits_[n] \in 1..9

\* random(3) drew 0, 0, 0 and the most-significant digit was redrawn as 7.
C23_Witness ==
    op = "random" /\ requested = 3 /\ res = Ok([sign_ |-> 1, digits_ |-> <<0, 0, 7>>])

\* Moduli of the residue test of a product.
ProductModuli == {9949, 9967, 9973}

\* C24: a * b is the mathematical product: zero if either operand is zero,
\* otherwise of magnitude |a| * |b| (exactly for operands of at most four
\* digits, by its residues and its length beyond that) and positive exactly
\* when the signs of the operands match; a * b = b * a; and
\* 123456789123456789 * 2 = 246913578246913578.
C24_Product ==
    op = "*" =>
        /\ res.err = NoError /\ Len(res.val) = 1
        /\ LET p == res.val[1]
               la == Len(a.digits_)
               lb == Len(b.digits_)
           IN  /\ Canonical(p)
               /\ (is_zero(a) \/ is_zero(b)) => p = Zero
               /\ ~(is_zero(a) \/ is_zero(b)) =>
                      /\ p.sign_ = (IF a.sign_ = b.sign_ THEN 1 ELSE -1)
                      /\ Len(p.digits_) \in {la + lb - 1, la + lb}
               /\ (la <= 4 /\ lb <= 4) =>
                      Magnitude(p.digits_) = Magnitude(a.digits_) * Magnitude(b.digits_)
               /\ \A m \in ProductModuli :
                      Residue(p.digits_, m)
                          = (Residue(a.digits_, m) * Residue(b.digits_, m)) % m
               /\ p = Mul(b, a)
               /\ (a = LongFactor /\ b = IntOf(2)) => p = LongDoubled

\* 123456789123456789 * 2 has returned 246913578246913578.
C24_Witness == op = "*" /\ a = LongFactor /\ b = IntOf(2) /\ res = Ok(LongDoubled)

\* C25: the sign of a - b is -1, 0 or 1 exactly when a <=> b is negative,
\* zero or positive; a - b == a + (-b); a - b denotes the difference of the
\* integers a and b denote; and a - a is the zero with sign zero and no
\* digits.
C25_Difference ==
    /\ op = "-" =>
          /\ res.err = NoError /\ Len(res.val) = 1
          /\ Canonical(res.val[1])
          /\ res.val[1].sign_ = Compare(a, b)
          /\ res.val[1] = Add(a, Neg(b))
          /\ Value(res.val[1]) = Value(a) - Value(b)
          /\ Equal(a, b) => res.val[1] = Zero
    /\ op = "a-a" => res = Ok(Zero)

\* -99 - (-100) has returned 1: the operands were swapped, a borrow ran
\* through two cells and two leading zeros were removed.
C25_Witness == op = "-" /\ a = IntOf(-99) /\ b = IntOf(-100) /\ res = Ok(IntOf(1))

RECURSIVE Reversed(_)
Reversed(s) == IF s = << >> THEN << >> ELSE Append(Reversed(Tail(s)), s[1])

\* The little-endian decimal digits of |n|, for every int n.
DigitsOfNative(n) ==
    IF n >= 0 THEN IntDigits(n) ELSE [k \in DOMAIN IntDigitsBelow(n) |-> -IntDigitsBelow(n)[k]]

\* The decimal literal of the int n.
DecimalLiteral(n) ==
    IF n = 0 THEN <<CharZero>>
    ELSE (IF n < 0 THEN <<CharMinus>> ELSE << >>) \o Text(Reversed(DigitsOfNative(n)))

\* C26: for every int n, INT_MIN included, Int(n) is canonical and equals
\* the Int parsed from the decimal literal of n, and
\* Int(n).to_integer<int>() is n.
C26_NativeRoundTrip ==
    /\ op \in {"Int(int)", "to_integer"} =>
          /\ Canonical(a)
          /\ Ok(a) = IntFromChars(DecimalLiteral(native))
    /\ op = "to_integer" => res = Ok(native)

\* The same for every int above INT_MIN.
C26_AboveMin ==
    native # INT_MIN => C26_NativeRoundTrip

\* C27: gcd(a, b) is never negative, gcd(a, 0) and gcd(0, a) are |a|, and
\* gcd(a, b) == gcd(b, a) == gcd(|a|, |b|).
C27_GcdSign ==
    op = "gcd" =>
        /\ res.err = NoError /\ Len(res.val) = 1
        /\ res.val[1].sign_ >= 0
        /\ is_zero(b) => res.val[1] = abs(a)
        /\ is_zero(a) => res.val[1] = abs(b)
        /\ res.val[1] = gcd(b, a)
        /\ res.val[1] = gcd(abs(a), abs(b))

\* The same up to sign: the magnitude of gcd(a, b) is gcd(|a|, |b|), which
\* is not negative, and is the magnitude of gcd(b, a).
C27_GcdMagnitude ==
    op = "gcd" =>
        /\ res.err = NoError /\ Len(res.val) = 1
        /\ abs(res.val[1]) = gcd(abs(a), abs(b))
        /\ abs(res.val[1]) = abs(gcd(b, a))
        /\ gcd(abs(a), abs(b)).sign_ >= 0

\* The cells of a vector.
Cells(v) == {v[k] : k \in 1..Len(v)}

\* C28: in the loops of +, - and * every cell stays within a signed 8-bit
\* integer: a cell of c is at most 19 in the addition and at most 99 in the
\* multiplication, a cell of a is at least -1 in the subtraction, which
\* never borrows from beyond the most-significant cell; and when a loop has
\* ended every cell of c is a digit 0..9.
C28_Cells ==
    /\ pc # "undefined"
    /\ pc = "add_for" =>
          /\ Cells(vert.c) \subseteq 0..19
          /\ Cells(vert.a) \cup Cells(vert.b) \subseteq 0..9
    /\ pc = "sub_for" =>
          /\ Cells(vert.a) \subseteq -1..18
          /\ Cells(vert.b) \cup Cells(vert.c) \subseteq 0..9
          /\ (vert.stmt = 1 /\ vert.i = vert.size) => ~(vert.a[vert.i] < vert.b[vert.i])
    /\ pc = "mul_for" =>
          /\ Cells(vert.c) \subseteq 0..99
          /\ Cells(vert.a) \cup Cells(vert.b) \subseteq 0..9
    /\ LoopEnded => Cells(vert.c) \subseteq 0..9

\* In 99 * 999 the cell c[i + j] holds 99 before the carry is taken out.
C28_Witness ==
    /\ pc = "mul_for" /\ vert.stmt = 2 /\ vert.c[vert.i + vert.j - 1] = 99
    /\ a = IntOf(99) /\ b = IntOf(999)

\* The value a call returns after its loop is the one the operator returns.
VerticalAgrees ==
    (pc = "idle" /\ op # "none") =>
        res = Ok(IF op = "+" THEN Add(a, b) ELSE IF op = "-" THEN Sub(a, b) ELSE Mul(a, b))
====
